---- MODULE Spec2Model ----
(***************************************************************************)
(* Planner.AI scheduling core (src/planner_ai_completed.py):               *)
(* parse_tasks_json -> topological_sort -> schedule_tasks, with            *)
(* distribute_hours as the per-task day allocator.                         *)
(*                                                                         *)
(* Numbers.  Hours are Python floats; here they are integers counted in    *)
(* units of 1e-6 hour, so that the code's tolerance 1e-6 is exactly one    *)
(* unit and every value used is represented exactly.  A datetime is the    *)
(* number of such units since 00:00 of day 0; day 0 is a Monday, so        *)
(* datetime.weekday() is (day % 7).  A name is a sequence of characters.   *)
(***************************************************************************)
EXTENDS Integers, Sequences, FiniteSets, TLC

VARIABLES
    pc,             \* position of the run
    raw,            \* the decoded "tasks" list handed to parse_tasks_json
    tasks,          \* the task list (normalised records)
    start,          \* schedule_tasks / distribute_hours argument: start
    due,            \* schedule_tasks / distribute_hours argument: due / end
    hours_per_week, \* weekly budget
    total_hours,    \* distribute_hours argument (direct call)
    order,          \* result of topological_sort: task positions in order
    i,              \* position of the for loop of schedule_tasks in order
    cur_start,      \* running cursor of schedule_tasks
    finished_dates, \* name -> completion instant
    events,         \* calendar events accumulated
    csv_rows,       \* schedule rows accumulated
    blocks          \* the (date, hours) pairs of the last distribute_hours

vars == <<pc, raw, tasks, start, due, hours_per_week, total_hours, order, i,
          cur_start, finished_dates, events, csv_rows, blocks>>

-----------------------------------------------------------------------------
(* Units and program constants *)

UnitsPerHour == 1000000
Tol == 1
NameLimit == 120
H == UnitsPerHour
Day == 24 * H
WorkStart == 10 * H
WorkEnd == 18 * H
MinPerDay == H \div 2
DefaultHours == H

Min(a, b) == IF a <= b THEN a ELSE b
Max(a, b) == IF a >= b THEN a ELSE b

Date(dt) == dt \div Day
Weekday(dt) == Date(dt) % 7
Midnight(d) == d * Day

-----------------------------------------------------------------------------
(* Bounds *)

MaxTasks == 2
MaxTopoTasks == 3
MaxDay == 8

-----------------------------------------------------------------------------
(* parse_tasks_json: normalisation of one decoded record (lines 112-120).   *)
(* A decoded record holds each field as a sequence of length 0 (the key is *)
(* absent) or 1 (the value).  A value of "hours" is [num |-> TRUE, v |-> n]*)
(* when float() accepts it and [num |-> FALSE, v |-> 0] when float() raises.*)

Get(field, default) == IF field = <<>> THEN default ELSE field[1]

IsSpace(c) == c = " "

RECURSIVE LStrip(_)
LStrip(s) == IF s # <<>> /\ IsSpace(Head(s)) THEN LStrip(Tail(s)) ELSE s

RECURSIVE RStrip(_)
RStrip(s) ==
    IF s # <<>> /\ IsSpace(s[Len(s)]) THEN RStrip(SubSeq(s, 1, Len(s) - 1)) ELSE s

Strip(s) == RStrip(LStrip(s))

Truncate(s, n) == SubSeq(s, 1, Min(Len(s), n))

ToFloat(field) ==
    IF field = <<>> THEN DefaultHours
    ELSE IF field[1].num THEN field[1].v ELSE DefaultHours

Normalize(t) ==
    [name       |-> Truncate(Strip(Get(t.name, <<>>)), NameLimit),
     why        |-> Strip(Get(t.why, <<>>)),
     hours      |-> ToFloat(t.hours),
     depends_on |-> Get(t.depends_on, <<>>)]

parse_tasks_json(rs) == [k \in 1..Len(rs) |-> Normalize(rs[k])]

-----------------------------------------------------------------------------
(* topological_sort (lines 123-141).  A task object is identified by its   *)
(* position in the list; the result is a sequence of positions.            *)

Range(s) == {s[k] : k \in 1..Len(s)}

NamesOf(ts) == {ts[k].name : k \in 1..Len(ts)}

\* name_to_task = {t["name"]: t for t in tasks}: the last task of a name wins
NameToTask(ts, n) ==
    CHOOSE k \in 1..Len(ts) :
        ts[k].name = n /\ \A j \in (k+1)..Len(ts) : ts[j].name # n

\* number of entries of one depends_on list that are keys of indeg
KnownDeps(ts, k) ==
    Cardinality({j \in 1..Len(ts[k].depends_on) : ts[k].depends_on[j] \in NamesOf(ts)})

RECURSIVE SumKnown(_, _, _)
SumKnown(ts, n, k) ==
    IF k = 0 THEN 0
    ELSE SumKnown(ts, n, k - 1) + (IF ts[k].name = n THEN KnownDeps(ts, k) ELSE 0)

\* lines 125-129
InitIndeg(ts) == [n \in NamesOf(ts) |-> SumKnown(ts, n, Len(ts))]

\* keys of indeg in insertion order: names by first occurrence
RECURSIVE KeyOrder(_, _)
KeyOrder(ts, k) ==
    IF k = 0 THEN <<>>
    ELSE LET prev == KeyOrder(ts, k - 1)
         IN  IF ts[k].name \in Range(prev) THEN prev ELSE Append(prev, ts[k].name)

\* line 130
InitQueue(ts, indeg) == SelectSeq(KeyOrder(ts, Len(ts)), LAMBDA n : indeg[n] = 0)

\* lines 135-139: the inner for loop, from task position k on; yields <<indeg, q>>
RECURSIVE Relax(_, _, _, _, _)
Relax(ts, n, k, indeg, q) ==
    IF k > Len(ts) THEN <<indeg, q>>
    ELSE IF n \in Range(ts[k].depends_on)
         THEN LET nm == ts[k].name
                  ind2 == [indeg EXCEPT ![nm] = @ - 1]
              IN  Relax(ts, n, k + 1, ind2,
                        IF ind2[nm] = 0 THEN Append(q, nm) ELSE q)
         ELSE Relax(ts, n, k + 1, indeg, q)

\* lines 132-139: the while loop
RECURSIVE Kahn(_, _, _, _)
Kahn(ts, indeg, q, ord) ==
    IF q = <<>> THEN ord
    ELSE LET n == Head(q)
             r == Relax(ts, n, 1, indeg, Tail(q))
         IN  Kahn(ts, r[1], r[2], Append(ord, NameToTask(ts, n)))

Identity(ts) == [k \in 1..Len(ts) |-> k]

KahnOrder(ts) ==
    LET indeg == InitIndeg(ts) IN Kahn(ts, indeg, InitQueue(ts, indeg), <<>>)

\* topological_sort without the cycle fallback of line 141
topological_sort_no_fallback(ts) == KahnOrder(ts)

\* line 141
topological_sort(ts) ==
    LET ord == KahnOrder(ts)
    IN  IF Len(ord) = Len(ts) THEN ord ELSE Identity(ts)

-----------------------------------------------------------------------------
(* distribute_hours (lines 54-64); a block is [d |-> day, h |-> hours]      *)

PerDay(hpw) == Max(hpw \div 5, MinPerDay)

\* DistLoop with the due date's own day left out of the window
RECURSIVE DistLoopExclusive(_, _, _, _)
DistLoopExclusive(remaining, cur, end, per_day) ==
    IF remaining > Tol /\ Date(cur) < Date(end)
    THEN IF Weekday(cur) < 5
         THEN LET h == Min(per_day, remaining)
              IN  <<[d |-> Date(cur), h |-> h]>>
                      \o DistLoopExclusive(remaining - h, cur + Day, end, per_day)
         ELSE DistLoopExclusive(remaining, cur + Day, end, per_day)
    ELSE <<>>

RECURSIVE DistLoop(_, _, _, _)
DistLoop(remaining, cur, end, per_day) ==
    IF remaining > Tol /\ Date(cur) <= Date(end)
    THEN IF Weekday(cur) < 5
         THEN LET h == Min(per_day, remaining)
              IN  <<[d |-> Date(cur), h |-> h]>>
                      \o DistLoop(remaining - h, cur + Day, end, per_day)
         ELSE DistLoop(remaining, cur + Day, end, per_day)
    ELSE <<>>

\* distribute_hours yielding on every calendar day, weekends included
RECURSIVE DistLoopAllDays(_, _, _, _)
DistLoopAllDays(remaining, cur, end, per_day) ==
    IF remaining > Tol /\ Date(cur) <= Date(end)
    THEN LET h == Min(per_day, remaining)
         IN  <<[d |-> Date(cur), h |-> h]>>
                 \o DistLoopAllDays(remaining - h, cur + Day, end, per_day)
    ELSE <<>>

distribute_all_days(total, st, end, hpw) == DistLoopAllDays(total, st, end, PerDay(hpw))

distribute_hours(total, st, end, hpw) == DistLoop(total, st, end, PerDay(hpw))

-----------------------------------------------------------------------------
(* schedule_tasks (lines 143-180): helpers of one loop iteration            *)

MaxOf(S) == CHOOSE x \in S : \A y \in S : y <= x

\* line 157: the latest finished_dates.get(dep, start) over the entries of
\* depends_on; start itself when the list is empty
DepEnd(t, fd, st) ==
    IF t.depends_on = <<>> THEN st
    ELSE MaxOf({IF d \in DOMAIN fd THEN fd[d] ELSE st : d \in Range(t.depends_on)})

\* line 158
TaskStart(t, fd, cur, st) == Max(cur, DepEnd(t, fd, st))

\* schedule_tasks without the forced block of lines 161-163
FallbackNone(bl, t, end) == bl

\* lines 161-163: the same-day block on the due date when nothing was yielded
Fallback(bl, t, end) ==
    IF bl = <<>> THEN <<[d |-> Date(end), h |-> t.hours]>> ELSE bl

\* lines 160-163
Blocks(t, task_start, end, hpw) ==
    Fallback(distribute_hours(t.hours, task_start, end, hpw), t, end)

\* lines 167-174; task (the position of t in the input) and fallback (whether
\* the block is the forced one) are bookkeeping for stating properties
Event(b, t, k, fb) ==
    [start       |-> Midnight(b.d) + WorkStart,
     end         |-> Midnight(b.d) + WorkStart + b.h,
     h           |-> b.h,
     name        |-> t.name,
     description |-> IF t.why # <<>> THEN t.why ELSE <<"T", "a", "s", "k">>,
     task        |-> k,
     fallback    |-> fb]

\* line 177
Finished(last_day) == Midnight(last_day) + WorkEnd

\* line 179
Row(t, k, bl) ==
    [name      |-> t.name,
     hours     |-> t.hours,
     first_day |-> bl[1].d,
     last_day  |-> bl[Len(bl)].d,
     why       |-> t.why,
     task      |-> k]

Put(fd, n, v) == [m \in DOMAIN fd \cup {n} |-> IF m = n THEN v ELSE fd[m]]

-----------------------------------------------------------------------------
(* Inputs *)

A == <<"a">>
B == <<"b">>
C == <<"c">>
X == <<"x">>

Num(v) == <<[num |-> TRUE, v |-> v]>>
NotNum == <<[num |-> FALSE, v |-> 0]>>

\* decoded records as the model may hand them to parse_tasks_json
RawChoices ==
    { [name |-> <<A>>,             why |-> << <<"w", " ">> >>, hours |-> Num(2 * H), depends_on |-> << <<>> >>],
      [name |-> << <<"b", " ">> >>, why |-> <<>>,              hours |-> Num(3 * H), depends_on |-> << <<A>> >>],
      [name |-> << <<" ", "a">> >>, why |-> <<>>,              hours |-> <<>>,       depends_on |-> << <<B>> >>],
      [name |-> <<B>>,             why |-> <<>>,              hours |-> Num(0),     depends_on |-> << <<A, A>> >>],
      [name |-> << <<" ">> >>,      why |-> <<>>,              hours |-> Num(H),     depends_on |-> <<>>],
      [name |-> <<>>,              why |-> <<>>,              hours |-> NotNum,     depends_on |-> << <<X>> >>],
      [name |-> <<A>>,             why |-> <<>>,              hours |-> Num(0 - H), depends_on |-> << <<A>> >>],
      [name |-> <<C>>,             why |-> <<>>,              hours |-> Num(5 * H), depends_on |-> << <<B>> >>],
      [name |-> <<C>>,             why |-> <<>>,              hours |-> Num(1),     depends_on |-> << <<>> >>] }

SeqsUpTo(S, n) == UNION {[1..m -> S] : m \in 1..n}

\* start instants: Mon 09:00, Mon 19:00, Fri 09:00, Sat 09:00, Wed of week 2
StartChoices == {9 * H, 19 * H, 4 * Day + 9 * H, 5 * Day + 9 * H, 9 * Day + 9 * H}
\* due dates (midnight, as parse_due gives): Fri, Sun, Fri of week 2
DueChoices == {Midnight(4), Midnight(6), Midnight(11)}
\* weekly budgets: daily cap 0.5h (floor), 1h, 2h
BudgetChoices == {0, 5 * H, 10 * H}

NoMap == [n \in {} |-> 0]

-----------------------------------------------------------------------------
(* Spec: the pipeline parse_tasks_json -> schedule_tasks                    *)

Init ==
    /\ pc = "parse"
    /\ raw \in SeqsUpTo(RawChoices, MaxTasks)
    /\ tasks = <<>>
    /\ start \in StartChoices
    /\ due \in DueChoices
    /\ hours_per_week \in BudgetChoices
    /\ total_hours = 0
    /\ order = <<>>
    /\ i = 0
    /\ cur_start = start
    /\ finished_dates = NoMap
    /\ events = <<>>
    /\ csv_rows = <<>>
    /\ blocks = <<>>

\* lines 111-121
ParseTasksJson ==
    /\ pc = "parse"
    /\ tasks' = parse_tasks_json(raw)
    /\ pc' = "begin"
    /\ UNCHANGED <<raw, start, due, hours_per_week, total_hours, order, i,
                   cur_start, finished_dates, events, csv_rows, blocks>>

\* lines 146-155: the locals, and topological_sort evaluated by the for
Begin ==
    /\ pc = "begin"
    /\ events' = <<>>
    /\ csv_rows' = <<>>
    /\ cur_start' = start
    /\ finished_dates' = NoMap
    /\ order' = topological_sort(tasks)
    /\ i' = 1
    /\ pc' = "loop"
    /\ UNCHANGED <<raw, tasks, start, due, hours_per_week, total_hours, blocks>>

\* lines 155-179: one iteration of the for loop
ScheduleTask ==
    /\ pc = "loop"
    /\ i <= Len(order)
    /\ LET k == order[i]
           t == tasks[k]
           task_start == TaskStart(t, finished_dates, cur_start, start)
           dist == distribute_hours(t.hours, task_start, due, hours_per_week)
           bl == Blocks(t, task_start, due, hours_per_week)
       IN  /\ blocks' = bl
           /\ events' = events \o [j \in 1..Len(bl) |-> Event(bl[j], t, k, dist = <<>>)]
           /\ IF bl = <<>>
              THEN \* line 177: last_day is None, datetime.combine raises
                   /\ pc' = "raised"
                   /\ UNCHANGED <<finished_dates, cur_start, csv_rows, i>>
              ELSE /\ finished_dates' = Put(finished_dates, t.name, Finished(bl[Len(bl)].d))
                   /\ cur_start' = Finished(bl[Len(bl)].d)
                   /\ csv_rows' = Append(csv_rows, Row(t, k, bl))
                   /\ i' = i + 1
                   /\ pc' = pc
    /\ UNCHANGED <<raw, tasks, start, due, hours_per_week, total_hours, order>>

\* line 180
Return ==
    /\ pc = "loop"
    /\ i > Len(order)
    /\ pc' = "done"
    /\ UNCHANGED <<raw, tasks, start, due, hours_per_week, total_hours, order, i,
                   cur_start, finished_dates, events, csv_rows, blocks>>

Next == ParseTasksJson \/ Begin \/ ScheduleTask \/ Return

Spec == Init /\ [][Next]_vars

-----------------------------------------------------------------------------
(* SpecTopo: topological_sort called on a task list                         *)

TopoDeps == {<<>>, <<A>>, <<B>>, <<C>>, <<A, A>>, <<C, X>>}

TopoTasks ==
    {[name |-> n, why |-> <<>>, hours |-> H, depends_on |-> d] :
        n \in {A, B, C}, d \in TopoDeps}

InitTopo ==
    /\ pc = "topo"
    /\ raw = <<>>
    /\ tasks \in SeqsUpTo(TopoTasks, MaxTopoTasks)
    /\ start = 0
    /\ due = 0
    /\ hours_per_week = 0
    /\ total_hours = 0
    /\ order = <<>>
    /\ i = 0
    /\ cur_start = 0
    /\ finished_dates = NoMap
    /\ events = <<>>
    /\ csv_rows = <<>>
    /\ blocks = <<>>

\* lines 123-141
TopoCall ==
    /\ pc = "topo"
    /\ order' = topological_sort(tasks)
    /\ pc' = "topo_done"
    /\ UNCHANGED <<raw, tasks, start, due, hours_per_week, total_hours, i,
                   cur_start, finished_dates, events, csv_rows, blocks>>

NextTopo == TopoCall

SpecTopo == InitTopo /\ [][NextTopo]_vars

-----------------------------------------------------------------------------
(* SpecDist: distribute_hours called on its own                             *)

TotalChoices == {0 - H, 0, 1, H \div 2, H, 3 * H, 7 * H}

InitDist ==
    /\ pc = "dist"
    /\ raw = <<>>
    /\ tasks = <<>>
    /\ start \in {Midnight(d) + tod : d \in 0..MaxDay, tod \in {9 * H, 19 * H}}
    /\ due \in {Midnight(d) : d \in 0..MaxDay}
    /\ hours_per_week \in BudgetChoices \cup {0 - 5 * H}
    /\ total_hours \in TotalChoices
    /\ order = <<>>
    /\ i = 0
    /\ cur_start = 0
    /\ finished_dates = NoMap
    /\ events = <<>>
    /\ csv_rows = <<>>
    /\ blocks = <<>>

\* lines 54-64, the generator run to exhaustion
DistCall ==
    /\ pc = "dist"
    /\ blocks' = distribute_hours(total_hours, start, due, hours_per_week)
    /\ pc' = "dist_done"
    /\ UNCHANGED <<raw, tasks, start, due, hours_per_week, total_hours, order, i,
                   cur_start, finished_dates, events, csv_rows>>

NextDist == DistCall

SpecDist == InitDist /\ [][NextDist]_vars

-----------------------------------------------------------------------------
(* Vocabulary of the properties *)

Abs(x) == IF x >= 0 THEN x ELSE 0 - x

RECURSIVE SumHours(_)
SumHours(bl) == IF bl = <<>> THEN 0 ELSE Head(bl).h + SumHours(Tail(bl))

\* weekdays among the dates from st's date to end's date, both included
WeekdaysIn(st, end) == Cardinality({d \in Date(st)..Date(end) : d % 7 < 5})

\* the dependency graph on names: n -> m when a task named n lists m and m
\* is the name of a task
Succ(ts, n) ==
    UNION {Range(ts[k].depends_on) \cap NamesOf(ts) : k \in {j \in 1..Len(ts) : ts[j].name = n}}

RECURSIVE ReachFrom(_, _, _)
ReachFrom(ts, S, steps) ==
    IF steps = 0 THEN S
    ELSE ReachFrom(ts, S \cup UNION {Succ(ts, n) : n \in S}, steps - 1)

HasCycle(ts) == \E n \in NamesOf(ts) : n \in ReachFrom(ts, Succ(ts, n), Len(ts))

IsPermutation(ord, ts) ==
    /\ Len(ord) = Len(ts)
    /\ Range(ord) = 1..Len(ts)

Pos(ord, k) == CHOOSE j \in 1..Len(ord) : ord[j] = k

EventsOf(k) == {e \in Range(events) : e.task = k}
RowsOf(k) == {j \in 1..Len(csv_rows) : csv_rows[j].task = k}

Overlap(e1, e2) == Max(e1.start, e2.start) < Min(e1.end, e2.end)

-----------------------------------------------------------------------------
(* Properties of Spec *)

\* C1: when schedule_tasks has returned, every event of a task t starts no
\* earlier than the completion instant (18:00 of the last allocation date) of
\* every dependency of t that names a task of the list.  Stated for the
\* lists whose dependency graph is acyclic: around a cycle no schedule at all
\* can place every task after the other.
C1_EventsAfterDependencies ==
    (pc = "done" /\ ~HasCycle(tasks)) =>
        \A e \in Range(events) :
            \A d \in Range(tasks[e.task].depends_on) \cap NamesOf(tasks) :
                e.start >= finished_dates[d]

\* C5: when schedule_tasks has returned, no event of one task overlaps in
\* time an event of another task: their [start, end) intervals are disjoint.
C5_NoOverlapBetweenTasks ==
    pc = "done" =>
        \A e1 \in Range(events) : \A e2 \in Range(events) :
            e1.task # e2.task => ~Overlap(e1, e2)

\* C6: every calendar event ends strictly later than it starts.
C6_EndAfterStart == \A e \in Range(events) : e.end > e.start

C8_AllEventsOnWeekdays == \A e \in Range(events) : Weekday(e.start) < 5

\* C8 amended: an event is dated on a weekday unless it is the forced block of
\* a task for which distribute_hours yielded nothing; that block is the only
\* event of its task and is dated on the due date, whatever its weekday.
C8_WeekdayOrForcedOnDueDate ==
    \A e \in Range(events) :
        IF e.fallback
        THEN /\ Date(e.start) = Date(due)
             /\ \A f \in EventsOf(e.task) : f = e
        ELSE Weekday(e.start) < 5

\* C8 witness: a run holding a forced block on a weekend next to an allocated
\* block of another task.
C8_Witness ==
    \E e1 \in Range(events) : \E e2 \in Range(events) :
        /\ e1.fallback /\ Weekday(e1.start) >= 5
        /\ ~e2.fallback /\ e2.task # e1.task

\* C9: when the batch holds a named record and schedule_tasks has returned,
\* no schedule row and no calendar event belongs to a record whose name is
\* empty after normalisation.
C9_NamelessExcluded ==
    (pc = "done" /\ \E k \in 1..Len(tasks) : tasks[k].name # <<>>) =>
        \A k \in 1..Len(tasks) :
            tasks[k].name = <<>> => RowsOf(k) = {} /\ EventsOf(k) = {}

\* C10: the running cursor never moves back: no step of schedule_tasks
\* leaves cur_start earlier than it was.
C10_CursorMonotone == [][cur_start' >= cur_start]_vars

-----------------------------------------------------------------------------
(* Properties of SpecTopo *)

\* C2: on a list whose dependency graph is acyclic topological_sort returns a
\* permutation in which, for every task t and every entry d of t.depends_on
\* that names a task, a task named d stands strictly before t.
C2_AcyclicDependenciesFirst ==
    (pc = "topo_done" /\ ~HasCycle(tasks)) =>
        /\ IsPermutation(order, tasks)
        /\ \A k \in 1..Len(tasks) :
              \A d \in Range(tasks[k].depends_on) \cap NamesOf(tasks) :
                  \E j \in 1..Len(tasks) :
                      tasks[j].name = d /\ Pos(order, j) < Pos(order, k)

\* C3: on a list whose dependency graph has a cycle (a self-dependency
\* included) topological_sort returns the input sequence itself: the same
\* tasks in the same order.
C3_CycleReturnsInput ==
    (pc = "topo_done" /\ HasCycle(tasks)) => order = Identity(tasks)

\* C3 witness: a cyclic list of three tasks on which the queue loop did
\* order some task before the fallback applied.
C3_Witness ==
    /\ pc = "topo_done"
    /\ HasCycle(tasks)
    /\ Len(tasks) = 3
    /\ KahnOrder(tasks) # <<>>
    /\ order = <<1, 2, 3>>

-----------------------------------------------------------------------------
(* Properties of SpecDist *)

\* C4 as claimed: for positive total_hours the yielded hours sum to
\* total_hours within the tolerance, or the sequence is empty and no weekday
\* lies in the window.
C4_SumsToTotalOrEmpty ==
    (pc = "dist_done" /\ total_hours > 0) =>
        \/ Abs(SumHours(blocks) - total_hours) <= Tol
        \/ blocks = <<>> /\ WeekdaysIn(start, due) = 0

\* C4 amended: for total_hours above the tolerance, the yielded hours sum to
\* total_hours within the tolerance when the weekdays of the window at the
\* daily cap max(hours_per_week/5, 0.5) can hold them; otherwise every weekday
\* of the window gets the cap and the sum stays below total_hours; and the
\* sequence is empty exactly when the window holds no weekday.
C4_SumsToTotalWhenWindowSuffices ==
    (pc = "dist_done" /\ total_hours > Tol) =>
        LET W == WeekdaysIn(start, due)
            cap == Max(hours_per_week \div 5, H \div 2)
        IN  /\ W * cap >= total_hours => Abs(SumHours(blocks) - total_hours) <= Tol
            /\ W * cap < total_hours =>
                  /\ SumHours(blocks) = W * cap
                  /\ Len(blocks) = W
            /\ blocks = <<>> <=> W = 0

\* C4 witness: a call whose window is too short: blocks were yielded and
\* their sum stays below total_hours.
C4_Witness ==
    /\ pc = "dist_done"
    /\ total_hours > Tol
    /\ blocks # <<>>
    /\ SumHours(blocks) < total_hours - Tol

====
